---- MODULE Spec2Model ----
(***************************************************************************)
(* A model of the opentron/evm execution core:                             *)
(*   - runtime/src/lib.rs: the step! macro, Runtime::step, Runtime::run,   *)
(*     and the continuation (ResolveCall / ResolveCreate) protocol;        *)
(*   - precompiled/src/lib.rs, precompiled/src/tron.rs and                 *)
(*     precompiles/src/lib.rs: the precompile dispatch table.              *)
(***************************************************************************)
EXTENDS Integers, Sequences, FiniteSets, TLC

(***************************************************************************)
(* Bounds of the runtime model.                                            *)
(***************************************************************************)
\* longest bytecode the Machine is loaded with
MaxCode == 4
\* number of scripted answers of the Handler's pre_validate hook
MaxPre == 2
\* longest base, exponent and modulus field of a modexp input, in bytes
MaxFieldLen == 2
\* most signatures, and most addresses, of a batchvalidatesign input
MaxSigs == 2

VARIABLES
    code,        \* Machine.code: the bytecode, a sequence of opcode classes
    preScript,   \* the Handler: the answers pre_validate gives, call by call
    hcalls,      \* the Handler's state: how many pre_validate calls it served
    machine,     \* Runtime.machine (its position and its executed instructions)
    status,      \* Runtime.status: Ok or the terminal ExitReason
    conts,       \* the ResolveCall / ResolveCreate values that exist (by id)
    nextId,      \* the id the next continuation gets
    last,        \* the last operation of the host and what it reported
    exited,      \* the first terminal ExitReason a step/run reported
    dropped,     \* whether a continuation was discarded unresolved
    consumed,    \* how often each continuation was consumed by a resolution
    expect,      \* what Runtime::run yields from the state a batch of steps began in
    callCrate,   \* which tron_precompile is called: "precompiled" or "precompiles"
    callBuild,   \* how it was built: "debug" or "release"
    callAddress, \* the address argument (the H160 as a number)
    callInput,   \* the input argument, a byte string
    gen,         \* the values the input encodes
    result,      \* what the call returned, once it was made
    abiIt,       \* an AbiArgIterator: its data and its offset
    abiLast,     \* the last operation on the iterator and what it returned
    config,      \* a Config
    cfgPrev,     \* the Config before the last upgrade function was applied
    cfgFn        \* the last upgrade function applied

rvars == <<code, preScript, hcalls, machine, status, conts, nextId, last,
           exited, dropped, consumed, expect>>

pvars == <<callCrate, callBuild, callAddress, callInput, gen, result>>

avars == <<abiIt, abiLast>>

cvars == <<config, cfgPrev, cfgFn>>

vars == <<rvars, pvars, avars, cvars>>

(***************************************************************************)
(* Values.                                                                 *)
(***************************************************************************)
Ok == "Ok"
None == "None"

\* Opcode classes of the bytecode: what Machine::step and eval::eval do with them.
\*   Op       an ordinary instruction, executed inside the Machine
\*   Invalid  an instruction on which the Machine exits with an error
\*   Call     a trap the eval layer answers with Control::CallInterrupt
\*   Create   a trap the eval layer answers with Control::CreateInterrupt
\*   EnvOk    a trap the eval layer resolves itself (Control::Continue)
\*   EnvExit  a trap on which the eval layer exits (Control::Exit)
Opcodes == {"Op", "Invalid", "Call", "Create", "EnvOk", "EnvExit"}
TrapOpcodes == {"Call", "Create", "EnvOk", "EnvExit"}

\* ExitReason values
ExitReasons == {"PreErr", "Stopped", "InvalidCode", "EnvErr", "UnhandledInterrupt"}

\* what a nested call or create can end with, as the host reports it
Outcomes == {"Succeed", "Revert"}

RECURSIVE SeqsUpTo(_, _)
SeqsUpTo(S, n) ==
    IF n = 0 THEN {<<>>}
    ELSE LET shorter == SeqsUpTo(S, n - 1)
         IN shorter \cup {Append(s, x) : s \in {t \in shorter : Len(t) = n - 1}, x \in S}

(***************************************************************************)
(* The Machine (evm_core).                                                 *)
(***************************************************************************)
\* Machine::new: position Ok(0), nothing executed.
MachineNew == [ok |-> TRUE, pc |-> 0, reason |-> None, executed |-> 0, fed |-> <<>>]

\* Machine::exit(reason): position = Err(reason).
MachineExit(m, reason) == [m EXCEPT !.ok = FALSE, !.reason = reason]

\* Machine::inspect(): the next opcode, when the position is Ok and inside the code.
MachineInspect(m, c) ==
    IF m.ok /\ m.pc < Len(c) THEN [some |-> TRUE, opcode |-> c[m.pc + 1]]
    ELSE [some |-> FALSE, opcode |-> None]

\* Machine::step(): Ok(()), Err(Capture::Exit(e)) or Err(Capture::Trap(opcode)).
MachineStep(m, c) ==
    IF ~m.ok THEN [m |-> m, result |-> "Exit", reason |-> m.reason, opcode |-> None]
    ELSE IF m.pc >= Len(c)
    THEN [m |-> MachineExit(m, "Stopped"), result |-> "Exit", reason |-> "Stopped",
          opcode |-> None]
    ELSE LET opcode == c[m.pc + 1] IN
         CASE opcode = "Op" ->
                [m |-> [m EXCEPT !.pc = @ + 1, !.executed = @ + 1],
                 result |-> Ok, reason |-> None, opcode |-> None]
           [] opcode = "Invalid" ->
                [m |-> MachineExit(m, "InvalidCode"), result |-> "Exit",
                 reason |-> "InvalidCode", opcode |-> None]
           [] OTHER ->
                [m |-> [m EXCEPT !.pc = @ + 1, !.executed = @ + 1],
                 result |-> "Trap", reason |-> None, opcode |-> opcode]

(***************************************************************************)
(* The Handler and the eval layer.                                         *)
(***************************************************************************)
\* Handler::pre_validate: the h-th answer of the script, Ok once it is used up.
PreValidate(script, h) == IF h < Len(script) THEN script[h + 1] ELSE Ok

HandlerNext(script, h) == IF h < Len(script) THEN h + 1 ELSE h

\* eval::eval(runtime, opcode, handler): the Control it answers a trap with.
Eval(opcode) ==
    CASE opcode = "Call" -> [control |-> "CallInterrupt", exit |-> None]
      [] opcode = "Create" -> [control |-> "CreateInterrupt", exit |-> None]
      [] opcode = "EnvExit" -> [control |-> "Exit", exit |-> "EnvErr"]
      [] OTHER -> [control |-> "Continue", exit |-> None]

(***************************************************************************)
(* runtime/src/lib.rs: the step! macro.  A runtime value rt is the record  *)
(* of the fields of Runtime the macro writes: machine and status.          *)
(***************************************************************************)
\* A slip in lines 31-34: the Machine is exited, the status is not recorded.
OnPreValidateErrNoStatus(rt, e) == [rt EXCEPT !.machine = MachineExit(@, e)]

\* lines 31-34: pre_validate failed with e.
OnPreValidateErr(rt, e) == [machine |-> MachineExit(rt.machine, e), status |-> e]

\* lines 26-36: inspect the Machine and ask the Handler.  answer is None when the
\* Machine cannot be inspected.
PreValidated(rt, c, script, h) ==
    IF MachineInspect(rt.machine, c).some
    THEN LET answer == PreValidate(script, h) IN
         [rt |-> IF answer = Ok THEN rt ELSE OnPreValidateErr(rt, answer),
          h |-> HandlerNext(script, h), answer |-> answer]
    ELSE [rt |-> rt, h |-> h, answer |-> None]

\* A slip in lines 38-44: the status is never looked at.
ShortCircuitNever(rt) == FALSE

\* lines 38-44: a status that carries an exit reason is returned at once.
ShortCircuit(rt) == rt.status # Ok

\* lines 48-52: Machine::step reported Exit(e).
OnMachineExit(rt, e) == [rt EXCEPT !.status = e]

\* A slip in lines 66-71: the exit is reported, neither Machine nor status records it.
OnEvalExitForgets(rt, exit) == rt

\* lines 66-71: eval reported Control::Exit(exit).
OnEvalExit(rt, exit) == [machine |-> MachineExit(rt.machine, exit), status |-> exit]

\* lines 53-73: Machine::step reported Trap(opcode).
OnTrap(rt, opcode) ==
    LET ev == Eval(opcode) IN
    CASE ev.control = "Continue" ->
           [rt |-> rt, result |-> Ok, reason |-> None, kind |-> None]
      [] ev.control = "CallInterrupt" ->
           [rt |-> rt, result |-> "Trap", reason |-> None, kind |-> "Call"]
      [] ev.control = "CreateInterrupt" ->
           [rt |-> rt, result |-> "Trap", reason |-> None, kind |-> "Create"]
      [] OTHER ->
           [rt |-> OnEvalExit(rt, ev.exit), result |-> "Exit", reason |-> ev.exit,
            kind |-> None]

\* lines 46-74: call Machine::step and match on what it reports.
Advance(rt, c) ==
    LET ms == MachineStep(rt.machine, c)
        rt1 == [rt EXCEPT !.machine = ms.m]
    IN CASE ms.result = Ok ->
              [rt |-> rt1, result |-> Ok, reason |-> None, kind |-> None]
         [] ms.result = "Exit" ->
              [rt |-> OnMachineExit(rt1, ms.reason), result |-> "Exit",
               reason |-> ms.reason, kind |-> None]
         [] OTHER -> OnTrap(rt1, ms.opcode)

\* lines 24-76: one expansion of step!.  result is Ok (the $ok arm), "Exit" or
\* "Trap" (the $return arms); pre is the answer of pre_validate; msteps counts the
\* calls of Machine::step.
StepMacro(rt, c, script, h) ==
    LET pv == PreValidated(rt, c, script, h) IN
    IF ShortCircuit(pv.rt)
    THEN [rt |-> pv.rt, h |-> pv.h, pre |-> pv.answer, msteps |-> 0,
          result |-> "Exit", reason |-> pv.rt.status, kind |-> None]
    ELSE Advance(pv.rt, c) @@ [h |-> pv.h, pre |-> pv.answer, msteps |-> 1]

\* A slip in lines 124-126: run without its loop, returning after one expansion.
RuntimeRunOnce(rt, c, script, h) ==
    LET r == StepMacro(rt, c, script, h) IN r @@ [rsteps |-> 1, stepped |-> r.msteps = 1]

\* lines 120-127: Runtime::run loops over the expansion until an arm returns.
\* rsteps counts the expansions, msteps the calls of Machine::step in all of them,
\* stepped tells whether the last expansion called Machine::step.
RECURSIVE RuntimeRun(_, _, _, _)
RuntimeRun(rt, c, script, h) ==
    LET r == StepMacro(rt, c, script, h) IN
    IF r.result = Ok
    THEN LET rest == RuntimeRun(r.rt, c, script, r.h) IN
         [rest EXCEPT !.msteps = @ + r.msteps, !.rsteps = @ + 1]
    ELSE r @@ [rsteps |-> 1, stepped |-> r.msteps = 1]

\* A slip in line 116: step expands the macro inside a loop, as run does.
RuntimeStepLoops(rt, c, script, h) == RuntimeRun(rt, c, script, h)

\* lines 112-117: Runtime::step is one expansion, returning Err(capture) or Ok(()).
RuntimeStep(rt, c, script, h) ==
    LET r == StepMacro(rt, c, script, h) IN r @@ [rsteps |-> 1, stepped |-> r.msteps = 1]

\* What a call of Runtime::run leaves and returns: the Runtime, the Handler and the Capture.
RunOutcome(rt, c, script, h) ==
    LET r == RuntimeRun(rt, c, script, h) IN
    [machine |-> r.rt.machine, status |-> r.rt.status, hcalls |-> r.h,
     result |-> r.result, reason |-> r.reason, kind |-> r.kind]

\* A slip in lines 112-123: the Resolve returned does not hold the borrow of the Runtime.
BorrowUnchecked(cs) == TRUE

\* lines 112-116, 120-123: step and run take `&'a mut self` and the Resolve they return
\* holds that borrow for 'a, so neither can be called while a continuation exists.
Borrowable(cs) == cs = {}

\* lines 57 and 62: ResolveCall::new($self) / ResolveCreate::new($self).
NewResolve(cs, id) == cs \cup {id}

(***************************************************************************)
(* The state machine of one Runtime and its host.                          *)
(***************************************************************************)
Rt == [machine |-> machine, status |-> status]

NoOp == [op |-> "none", result |-> None, reason |-> None, kind |-> None, pre |-> None,
         msteps |-> 0, rsteps |-> 0, stepped |-> FALSE, fresh |-> TRUE, cont |-> 0]

\* lines 91-104: Runtime::new, over every bytecode and every Handler of the bounds.
RInit ==
    /\ code \in SeqsUpTo(Opcodes, MaxCode)
    /\ preScript \in [1..MaxPre -> {Ok, "PreErr"}]
    /\ hcalls = 0
    /\ machine = MachineNew
    /\ status = Ok
    /\ conts = {}
    /\ nextId = 1
    /\ last = NoOp
    /\ exited = None
    /\ dropped = FALSE
    /\ consumed = {}
    /\ expect = [out |-> RunOutcome(Rt, code, preScript, hcalls), steps |-> 0]

\* The effect of a call that ran the macro and got r, with cs the continuations
\* that exist when it returns.
Commit(op, r, cs, fresh, id) ==
    /\ machine' = r.rt.machine
    /\ status' = r.rt.status
    /\ hcalls' = r.h
    /\ conts' = IF r.result = "Trap" THEN NewResolve(cs, nextId) ELSE cs
    /\ nextId' = IF r.result = "Trap" THEN nextId + 1 ELSE nextId
    /\ last' = [op |-> op, result |-> r.result, reason |-> r.reason, kind |-> r.kind,
                pre |-> r.pre, msteps |-> r.msteps, rsteps |-> r.rsteps,
                stepped |-> r.stepped, fresh |-> fresh, cont |-> id]
    /\ exited' = IF exited = None /\ r.result = "Exit" THEN r.reason ELSE exited
    /\ UNCHANGED <<code, preScript>>
    /\ UNCHANGED <<pvars, avars, cvars>>

\* The host calls Runtime::step.
Step ==
    /\ Borrowable(conts)
    /\ Commit("step", RuntimeStep(Rt, code, preScript, hcalls), conts, TRUE, 0)
    /\ expect' = IF last.op = "step" /\ last.result = Ok
                 THEN [expect EXCEPT !.steps = @ + 1]
                 ELSE [out |-> RunOutcome(Rt, code, preScript, hcalls), steps |-> 1]
    /\ UNCHANGED <<dropped, consumed>>

\* The host calls Runtime::run.
Run ==
    /\ Borrowable(conts)
    /\ Commit("run", RuntimeRun(Rt, code, preScript, hcalls), conts, TRUE, 0)
    /\ UNCHANGED <<dropped, consumed, expect>>

\* The host resolves continuation id with the outcome of the nested call or create:
\* the continuation is consumed, the outcome is fed to the Machine, one more step runs.
ResolveFeed(rt, outcome) == [rt EXCEPT !.machine.fed = Append(@, outcome)]

ResolveRemove(cs, id) == cs \ {id}

Resolve(id, outcome) ==
    /\ id \in conts
    /\ Commit("resolve", RuntimeStep(ResolveFeed(Rt, outcome), code, preScript, hcalls),
              ResolveRemove(conts, id), id \notin consumed, id)
    /\ consumed' = consumed \cup {id}
    /\ UNCHANGED <<dropped, expect>>

\* The host discards continuation id unresolved: the frame is abandoned.
DropRuntime(rt) ==
    [machine |-> MachineExit(rt.machine, "UnhandledInterrupt"),
     status |-> "UnhandledInterrupt"]

Drop(id) ==
    /\ id \in conts
    /\ conts' = conts \ {id}
    /\ machine' = DropRuntime(Rt).machine
    /\ status' = DropRuntime(Rt).status
    /\ dropped' = TRUE
    /\ last' = [NoOp EXCEPT !.op = "drop", !.cont = id]
    /\ UNCHANGED <<code, preScript, hcalls, nextId, exited, consumed, expect>>
    /\ UNCHANGED <<pvars, avars, cvars>>

RNext ==
    \/ Step
    \/ Run
    \/ \E id \in conts, outcome \in Outcomes : Resolve(id, outcome)
    \/ \E id \in conts : Drop(id)

\* No precompile call is made beside the Runtime.
PIdle ==
    /\ callCrate = "precompiled"
    /\ callBuild = "release"
    /\ callAddress = 0
    /\ callInput = <<>>
    /\ gen = [kind |-> "raw"]
    /\ result = [tag |-> "NotCalled"]

(***************************************************************************)
(* Byte strings and the integer types of the precompiles.                  *)
(* A byte string is a sequence over 0..255.  Slicing data[a..b] aborts     *)
(* (panics) when a > b or b > len; operators that can abort return a       *)
(* record whose tag is "Panic".                                            *)
(***************************************************************************)
Min(a, b) == IF a <= b THEN a ELSE b
Max(a, b) == IF a >= b THEN a ELSE b

\* n copies of byte b
Fill(n, b) == [i \in 1..n |-> b]

\* &data[a..b] is in bounds
SliceOk(data, a, b) == a <= b /\ b <= Len(data)

\* &data[a..b], for a slice that is in bounds
Slice(data, a, b) == SubSeq(data, a + 1, b)

\* A U256 is kept exactly below 2^24.  BigUsize stands for every value of
\* [2^24, 2^64), OverUsize for every value of [2^64, 2^256).
BigUsize == 256 * 256 * 256
OverUsize == BigUsize + 1

\* U256::from_big_endian(slice), slice of at most 32 bytes
U256_from_big_endian(b) ==
    LET n == Len(b)
        at(i) == IF i >= 1 THEN b[i] ELSE 0
    IN IF \E i \in 1..(n - 8) : b[i] # 0 THEN OverUsize
       ELSE IF \E i \in (n - 7)..(n - 3) : at(i) # 0 THEN BigUsize
       ELSE at(n - 2) * 65536 + at(n - 1) * 256 + at(n)

\* usize::try_from(U256).ok()
TryUsize(v) == IF v = OverUsize THEN [some |-> FALSE, val |-> 0] ELSE [some |-> TRUE, val |-> v]

\* u8::try_from(U256).ok()
TryU8(v) == IF v > 255 THEN [some |-> FALSE, val |-> 0] ELSE [some |-> TRUE, val |-> v]

\* i32::try_from(U256): a value of [2^24, 2^64) may or may not fit; it is kept as
\* BigUsize, which no slice of an input of the model can reach.
TryI32(v) == IF v = OverUsize THEN [some |-> FALSE, val |-> 0] ELSE [some |-> TRUE, val |-> v]

\* BigUint::from_bytes_be(slice)
RECURSIVE BigUint_from_bytes_be(_)
BigUint_from_bytes_be(b) ==
    IF b = <<>> THEN 0
    ELSE BigUint_from_bytes_be(SubSeq(b, 1, Len(b) - 1)) * 256 + b[Len(b)]

\* BigUint::to_bytes_be(): the shortest big-endian form, one zero byte for 0
RECURSIVE BigUint_to_bytes_be(_)
BigUint_to_bytes_be(n) ==
    IF n < 256 THEN <<n>> ELSE Append(BigUint_to_bytes_be(n \div 256), n % 256)

\* BigUint::bits()
RECURSIVE BigUint_bits(_)
BigUint_bits(n) == IF n = 0 THEN 0 ELSE 1 + BigUint_bits(n \div 2)

\* BigUint::modpow(exp, modulus), modulus > 0: square and multiply
RECURSIVE BigUint_modpow(_, _, _)
BigUint_modpow(base, exp, modulus) ==
    IF exp = 0 THEN 1 % modulus
    ELSE LET half == BigUint_modpow(base, exp \div 2, modulus)
             sq == (half * half) % modulus
         IN IF exp % 2 = 1 THEN (sq * (base % modulus)) % modulus ELSE sq

\* Sha256 of a byte string: 32 bytes.  The digest function itself is outside the
\* model; this stand-in depends on the length and on the first byte only.
Sha256(b) ==
    [i \in 1..32 |-> (31 * i + 7 * Len(b) + (IF b = <<>> THEN 0 ELSE b[1])) % 256]

(***************************************************************************)
(* precompiled/src/tron.rs: AbiArgIterator.  An iterator is the record     *)
(* [data, offset]; an operation returns [tag, val, it] with tag "Some",    *)
(* "None" or "Panic", val the value returned and it the iterator left.     *)
(***************************************************************************)
WORD_SIZE == 32

AbiArgIterator_new(data) == [data |-> data, offset |-> 0]

AbiNone(it) == [tag |-> "None", val |-> <<>>, it |-> it]
AbiPanic(it) == [tag |-> "Panic", val |-> <<>>, it |-> it]
AbiSome(v, it) == [tag |-> "Some", val |-> v, it |-> it]

\* lines 28-36
next_words_as_bytes(it, n) ==
    IF it.offset < Len(it.data)
    THEN IF SliceOk(it.data, it.offset, it.offset + n * WORD_SIZE)
         THEN AbiSome(Slice(it.data, it.offset, it.offset + n * WORD_SIZE),
                      [it EXCEPT !.offset = @ + n * WORD_SIZE])
         ELSE AbiPanic(it)
    ELSE AbiNone(it)

\* lines 18-26
next_byte32(it) ==
    IF it.offset < Len(it.data)
    THEN IF SliceOk(it.data, it.offset, it.offset + WORD_SIZE)
         THEN AbiSome(Slice(it.data, it.offset, it.offset + WORD_SIZE),
                      [it EXCEPT !.offset = @ + WORD_SIZE])
         ELSE AbiPanic(it)
    ELSE AbiNone(it)

\* lines 38-40
next_u256(it) ==
    LET from_word(w) ==
            IF w.tag = "Some" THEN AbiSome(U256_from_big_endian(w.val), w.it) ELSE w
    IN from_word(next_byte32(it))

\* lines 47, 57, 75: self.next_u256()?.try_into().ok()?
next_usize(it) ==
    LET try_into(w) ==
            IF w.tag # "Some" THEN w
            ELSE IF TryUsize(w.val).some THEN w ELSE AbiNone(w.it)
    IN try_into(next_u256(it))

\* lines 49-51, 60-63, 78-81: the usize read from the word at local_offset
usize_at(it, local_offset) ==
    IF SliceOk(it.data, local_offset, local_offset + WORD_SIZE)
    THEN LET v == U256_from_big_endian(Slice(it.data, local_offset, local_offset + WORD_SIZE))
         IN IF TryUsize(v).some THEN AbiSome(v, it) ELSE AbiNone(it)
    ELSE AbiPanic(it)

\* lines 46-53
next_bytes(it) ==
    LET take(lo, size) ==
            IF size.tag # "Some" THEN size
            ELSE IF SliceOk(lo.it.data, lo.val + WORD_SIZE, lo.val + WORD_SIZE + size.val)
            THEN AbiSome(Slice(lo.it.data, lo.val + WORD_SIZE, lo.val + WORD_SIZE + size.val),
                         lo.it)
            ELSE AbiPanic(lo.it)
        sized(lo) == IF lo.tag # "Some" THEN lo ELSE take(lo, usize_at(lo.it, lo.val))
    IN sized(next_usize(it))

\* lines 67 and 85: (0..len).map(|_| inner.next()).collect::<Option<Vec<_>>>(),
\* which stops at the first None; bytes tells which of the two readers next is.
RECURSIVE collect(_, _, _, _)
collect(inner, len, bytes, acc) ==
    LET push(r) ==
            IF r.tag # "Some" THEN r
            ELSE collect(r.it, len - 1, bytes, Append(acc, r.val))
    IN IF len = 0 THEN AbiSome(acc, inner)
       ELSE push(IF bytes THEN next_bytes(inner) ELSE next_byte32(inner))

\* lines 55-71 and 73-89: the two array readers differ in the reader of the elements
next_array(it, bytes) ==
    LET restore(r, lo) == [r EXCEPT !.it = lo.it]
        elements(lo, len) ==
            IF len.tag # "Some" THEN len
            ELSE restore(collect(AbiArgIterator_new(
                                     Slice(lo.it.data, lo.val + WORD_SIZE, Len(lo.it.data))),
                                 len.val, bytes, <<>>), lo)
        counted(lo) ==
            IF lo.tag # "Some" THEN lo
            ELSE IF lo.val < Len(lo.it.data) THEN elements(lo, usize_at(lo.it, lo.val))
            ELSE AbiSome(<<>>, lo.it)
    IN counted(next_usize(it))

\* lines 55-71
next_array_of_bytes(it) == next_array(it, TRUE)

\* lines 73-89
next_array_of_byte32(it) == next_array(it, FALSE)

(***************************************************************************)
(* The secp256k1 and Keccak primitives (external crates).  Only what the   *)
(* callers can observe is kept: whether a value parses, whether a key is   *)
(* recovered, and a 20-byte address that depends on all the arguments.     *)
(***************************************************************************)
IsZero(b) == \A i \in 1..Len(b) : b[i] = 0

\* Signature::parse_slice(64 bytes): r or s that overflows the group order is refused
\* (a scalar whose 16 leading bytes are 0xff is above the order).
Signature_parse_ok(sig) ==
    /\ \E i \in 1..16 : sig[i] # 255
    /\ \E i \in 33..48 : sig[i] # 255

\* RecoveryId::parse(byte)
RecoveryId_parse_ok(b) == b < 4

\* secp256k1::recover(msg, sig, rec_id): no key for a zero r or s, nor (in this
\* stand-in) for an r whose last byte is even.
recover_ok(msg, sig, rec_id) ==
    /\ ~IsZero(SubSeq(sig, 1, 32))
    /\ ~IsZero(SubSeq(sig, 33, 64))
    /\ sig[32] % 2 = 1

\* The last 20 bytes of Keccak256 of the recovered key.
recovered_address(msg, sig, rec_id) ==
    [i \in 1..20 |-> (msg[32] + 3 * sig[32] + 5 * sig[64] + 7 * rec_id + i) % 256]

\* H256 with the address in its last 20 bytes (tron.rs lines 107-108, 126-127)
H256_of_address(a) == Fill(12, 0) \o a

(***************************************************************************)
(* precompiled/src/tron.rs: ecrecover, recover_addr, batchvalidatesign.    *)
(* Each returns [tag, val] with tag "Some", "None" or "Panic".             *)
(***************************************************************************)
OptNone == [tag |-> "None", val |-> <<>>]
OptPanic == [tag |-> "Panic", val |-> <<>>]
OptSome(v) == [tag |-> "Some", val |-> v]

\* lines 92-110 (and precompiles/src/lib.rs lines 158-179)
ecrecover(input) ==
    IF ~SliceOk(input, 32, 64) THEN OptPanic
    ELSE LET v == TryU8(U256_from_big_endian(Slice(input, 32, 64))) IN
         IF ~v.some THEN OptNone
         ELSE IF ~SliceOk(input, 64, 128) THEN OptPanic
         ELSE LET msg == Slice(input, 0, 32)
                  sig == Slice(input, 64, 128)
                  rec == (v.val - 27) % 256
              IN IF ~Signature_parse_ok(sig) THEN OptNone
                 ELSE IF ~RecoveryId_parse_ok(rec) THEN OptNone
                 ELSE IF ~recover_ok(msg, sig, rec) THEN OptNone
                 ELSE OptSome(H256_of_address(recovered_address(msg, sig, rec)))

\* lines 113-129: the value is the 20-byte address
recover_addr(message, signature) ==
    IF ~SliceOk(signature, 0, 64) THEN OptPanic
    ELSE LET sig == Slice(signature, 0, 64) IN
         IF ~Signature_parse_ok(sig) THEN OptNone
         ELSE IF Len(signature) < 65 THEN OptPanic
         ELSE IF ~RecoveryId_parse_ok(signature[65]) THEN OptNone
         ELSE IF ~recover_ok(message, sig, signature[65]) THEN OptNone
         ELSE OptSome(recovered_address(message, sig, signature[65]))

\* lines 143-150: the loop over the signatures, from index i (0-based) on
RECURSIVE validate_from(_, _, _, _, _)
validate_from(hash, sigs, addrs, i, ret) ==
    LET compare(addr) ==
            IF addr.tag = "Panic" THEN OptPanic
            ELSE IF addr.tag = "Some" /\ addr.val = Slice(addrs[i + 1], 12, 32)
            THEN IF i >= Len(ret) THEN OptPanic
                 ELSE validate_from(hash, sigs, addrs, i + 1, [ret EXCEPT ![i + 1] = 1])
            ELSE validate_from(hash, sigs, addrs, i + 1, ret)
    IN IF i >= Len(sigs) THEN OptSome(ret)
       ELSE compare(recover_addr(hash, sigs[i + 1]))

\* lines 132-153
batchvalidatesign(input) ==
    LET validate(hash, sigs, addrs) ==
            IF addrs.tag # "Some" THEN [tag |-> addrs.tag, val |-> <<>>]
            ELSE IF Len(sigs.val) # Len(addrs.val) THEN OptNone
            ELSE validate_from(hash.val, sigs.val, addrs.val, 0, Fill(32, 0))
        read_addrs(hash, sigs) ==
            IF sigs.tag # "Some" THEN [tag |-> sigs.tag, val |-> <<>>]
            ELSE validate(hash, sigs, next_array_of_byte32(sigs.it))
        read_sigs(hash) ==
            IF hash.tag # "Some" THEN [tag |-> hash.tag, val |-> <<>>]
            ELSE read_addrs(hash, next_array_of_bytes(hash.it))
    IN read_sigs(next_byte32(AbiArgIterator_new(input)))

(***************************************************************************)
(* precompiled/src/alt_bn128.rs (not among the sources): the curve         *)
(* operations, which answer None to an input that is not well formed.      *)
(***************************************************************************)
ecadd(input) == IF Len(input) = 128 THEN OptSome(Fill(64, 1)) ELSE OptNone

ecmul(input) == IF Len(input) = 96 THEN OptSome(Fill(64, 2)) ELSE OptNone

ecpairing(input) ==
    IF Len(input) % 192 = 0 THEN OptSome(Fill(31, 0) \o <<1>>) ELSE OptNone

(***************************************************************************)
(* precompiled/src/lib.rs and precompiles/src/lib.rs: tron_precompile.     *)
(* The value returned is the record [tag, output, cost, wrapped, inner]:   *)
(*   tag      "NotPrecompile" (None), "Returned" (Some(Ok((Returned, ..))))*)
(*            or "Panic" (the call aborts);                                *)
(*   output   the output bytes;  cost  the gas cost;                       *)
(*   wrapped  the cost is a usize that wrapped: it is UsizeDiv6 + cost;    *)
(*   inner    what the function of the precompile returned, "Some" or      *)
(*            "None" ("-" where there is none).                            *)
(* crate is "precompiled" or "precompiles"; build is "debug" (arithmetic   *)
(* overflow aborts) or "release" (it wraps).                               *)
(***************************************************************************)
NotPrecompile == [tag |-> "NotPrecompile", output |-> <<>>, cost |-> 0, wrapped |-> FALSE,
                  inner |-> "-"]
Panicked == [tag |-> "Panic", output |-> <<>>, cost |-> 0, wrapped |-> FALSE, inner |-> "-"]
Returned(output, cost, inner) ==
    [tag |-> "Returned", output |-> output, cost |-> cost, wrapped |-> FALSE, inner |-> inner]

\* ret.unwrap_or_default() of an Option<Vec<u8>>
unwrap_or_default(opt) == IF opt.tag = "Some" THEN opt.val ELSE <<>>

\* precompiled lines 26-31, precompiles lines 23-28
\* ecrecover(input).unwrap_or_default() is an H256: 32 zero bytes for None
precompile_ecrecover(input) ==
    LET ret == ecrecover(input) IN
    IF ret.tag = "Panic" THEN Panicked
    ELSE Returned(IF ret.tag = "Some" THEN ret.val ELSE Fill(32, 0), 3000, ret.tag)

\* precompiled line 36, precompiles line 33
sha256_cost(len) == 60 + (12 * (len + 31)) \div 32

\* precompiled lines 34-43, precompiles lines 31-40
precompile_sha256(input) == Returned(Sha256(input), sha256_cost(Len(input)), "-")

\* precompiled line 48, precompiles line 45
ripemd160_cost(len) == 600 + (120 * (len + 31)) \div 32

\* precompiled lines 46-59, precompiles lines 43-56: Sha256 of the first 20 bytes of
\* the Sha256 of the input
precompile_ripemd160(input) ==
    Returned(Sha256(SubSeq(Sha256(input), 1, 20)), ripemd160_cost(Len(input)), "-")

\* precompiled lines 63-67, precompiles lines 60-64
precompile_identity(input) == Returned(input, 15 + 3 * ((Len(input) + 31) \div 32), "-")

\* precompiled line 71: input.chunks(32).take(3), then words[k]
modexp_word(input, k) ==
    IF 32 * k < Len(input)
    THEN [some |-> TRUE, val |-> Slice(input, 32 * k, Min(32 * k + 32, Len(input)))]
    ELSE [some |-> FALSE, val |-> <<>>]

\* precompiled lines 73-75: i32::try_from(U256::from_big_endian(&words[k])).unwrap()
modexp_len(input, k) ==
    LET w == modexp_word(input, k) IN
    IF w.some THEN TryI32(U256_from_big_endian(w.val)) ELSE [some |-> FALSE, val |-> 0]

\* precompiled lines 86-95
modexp_cost(base_len, modulus_len, exp) ==
    LET max_len == Max(base_len, modulus_len)
        mul_complexity ==
            IF max_len <= 64 THEN max_len * max_len
            ELSE IF max_len <= 1024 THEN (max_len * max_len) \div 4 + 96 * max_len - 3072
            ELSE (max_len * max_len) \div 16 + 480 * max_len - 199680
        adj_exp_len == BigUint_bits(exp)
    IN (mul_complexity * Max(adj_exp_len, 1)) \div 20

\* A slip in lines 102-108: the result is returned as to_bytes_be() gives it.
modexp_pad_none(ret, modulus_len) == ret

\* precompiled lines 102-108, precompiles lines 91-97
modexp_pad(ret, modulus_len) ==
    IF Len(ret) < modulus_len THEN Fill(modulus_len - Len(ret), 0) \o ret ELSE ret

\* precompiled lines 70-111, precompiles lines 67-100 (where the cost is 0)
precompile_modexp(crate, input) ==
    LET bl == modexp_len(input, 0)
        el == modexp_len(input, 1)
        ml == modexp_len(input, 2)
    IN IF ~bl.some \/ ~el.some \/ ~ml.some THEN Panicked
       ELSE LET o1 == 96 + bl.val
                o2 == o1 + el.val
                o3 == o2 + ml.val
            IN IF ~SliceOk(input, 96, o1) \/ ~SliceOk(input, o1, o2) \/ ~SliceOk(input, o2, o3)
               THEN Panicked
               ELSE LET base == BigUint_from_bytes_be(Slice(input, 96, o1))
                        exp == BigUint_from_bytes_be(Slice(input, o1, o2))
                        modulus == BigUint_from_bytes_be(Slice(input, o2, o3))
                        cost == IF crate = "precompiled"
                                THEN modexp_cost(bl.val, ml.val, exp) ELSE 0
                    IN IF modulus = 0 THEN Returned(<<>>, cost, "-")
                       ELSE Returned(modexp_pad(BigUint_to_bytes_be(
                                         BigUint_modpow(base, exp, modulus)), ml.val),
                                     cost, "-")

\* precompiled lines 114-119
precompile_ecadd(input) ==
    LET ret == ecadd(input) IN Returned(unwrap_or_default(ret), 500, ret.tag)

\* precompiled lines 122-127
precompile_ecmul(input) ==
    LET ret == ecmul(input) IN Returned(unwrap_or_default(ret), 40000, ret.tag)

\* precompiled lines 130-138
precompile_ecpairing(input) ==
    LET ret == ecpairing(input) IN
    Returned(unwrap_or_default(ret), 100000 + 80000 * (Len(input) \div 192), ret.tag)

\* precompiled lines 145 and 154, precompiles lines 137 and 145:
\* COST_PER_SIGN * (input.len() / WORD_SISZE - 5) / 6 in usize.  With fewer than 5
\* words the subtraction overflows: the debug build aborts, the release build wraps
\* to 2^64 - k, and the cost is floor((2^64 - 1500 k) / 6) = UsizeDiv6 - 250 k, with
\* UsizeDiv6 = floor(2^64 / 6) (kept symbolic: cost holds - 250 k and wrapped is set).
sign_cost(build, len) ==
    LET words == len \div 32 IN
    IF words >= 5
    THEN [panic |-> FALSE, wrapped |-> FALSE, cost |-> (1500 * (words - 5)) \div 6]
    ELSE IF build = "debug"
    THEN [panic |-> TRUE, wrapped |-> FALSE, cost |-> 0]
    ELSE [panic |-> FALSE, wrapped |-> TRUE, cost |-> 0 - 250 * (5 - words)]

\* precompiled lines 142-149
precompile_batchvalidatesign(build, input) ==
    LET answer(c, ret) ==
            IF ret.tag = "Panic" THEN Panicked
            ELSE [tag |-> "Returned", output |-> unwrap_or_default(ret), cost |-> c.cost,
                  wrapped |-> c.wrapped, inner |-> ret.tag]
        charged(c) == IF c.panic THEN Panicked ELSE answer(c, batchvalidatesign(input))
    IN charged(sign_cost(build, Len(input)))

\* precompiled lines 152-157, precompiles lines 134-148: unimplemented!()
precompile_unimplemented(build, input) == Panicked

\* precompiled/src/lib.rs lines 18-165
tron_precompile_precompiled(build, address, input) ==
    CASE address = 1 -> precompile_ecrecover(input)
      [] address = 2 -> precompile_sha256(input)
      [] address = 3 -> precompile_ripemd160(input)
      [] address = 4 -> precompile_identity(input)
      [] address = 5 -> precompile_modexp("precompiled", input)
      [] address = 6 -> precompile_ecadd(input)
      [] address = 7 -> precompile_ecmul(input)
      [] address = 8 -> precompile_ecpairing(input)
      [] address = 9 -> precompile_batchvalidatesign(build, input)
      [] address = 10 -> precompile_unimplemented(build, input)
      [] OTHER -> NotPrecompile

\* precompiles/src/lib.rs lines 15-156
tron_precompile_precompiles(build, address, input) ==
    CASE address = 1 -> precompile_ecrecover(input)
      [] address = 2 -> precompile_sha256(input)
      [] address = 3 -> precompile_ripemd160(input)
      [] address = 4 -> precompile_identity(input)
      [] address = 5 -> precompile_modexp("precompiles", input)
      [] address \in 6..10 -> precompile_unimplemented(build, input)
      [] OTHER -> NotPrecompile

\* tron_precompile of either crate
tron_precompile(crate, build, address, input) ==
    IF crate = "precompiled" THEN tron_precompile_precompiled(build, address, input)
    ELSE tron_precompile_precompiles(build, address, input)

(***************************************************************************)
(* The calls of tron_precompile: every crate and build, and the inputs     *)
(* below.  An input is built from the values it encodes (gen), by the      *)
(* encoding the caller of the precompile uses.                             *)
(***************************************************************************)
RECURSIVE Pow256(_)
Pow256(k) == IF k = 0 THEN 1 ELSE 256 * Pow256(k - 1)

\* n as len big-endian bytes (n < 256^len)
EncodeBE(n, len) == [i \in 1..len |-> (n \div Pow256(len - i)) % 256]

\* n as a 32-byte big-endian word
Word32(n) == Fill(29, 0) \o EncodeBE(n, 3)

Crates == {"precompiled", "precompiles"}
Builds == {"debug", "release"}

\* addresses 0 to 11, and the first shielded-contract address 0x1000001
Addresses == 0..11 \cup {BigUsize + 1}

\* raw inputs: n bytes, all 0 or all 0xff
RawLens == {0, 1, 31, 32, 33, 63, 64, 95, 96, 127, 128, 159, 160, 161, 192, 384}
RawCalls ==
    {[address |-> a, input |-> Fill(n, b), gen |-> [kind |-> "raw"]] :
        a \in Addresses, n \in RawLens, b \in {0, 255}}

\* ecrecover inputs: hash, v, r, s
EcVs == {0, 26, 27, 28, 29, 30, 31, 255, 256, OverUsize}
EcScalars == {0, 1, 2, OverUsize}
EcWord(n) == IF n = OverUsize THEN Fill(32, 255) ELSE Word32(n)
EcCalls ==
    {[address |-> 1,
      input |-> Fill(32, 17) \o EcWord(v) \o EcWord(r) \o EcWord(s),
      gen |-> [kind |-> "ecrecover", v |-> v, r |-> r, s |-> s]] :
        v \in EcVs, r \in EcScalars, s \in EcScalars}

\* modexp inputs: the three lengths, then base, exponent and modulus
BaseVals == {0, 2, 3, 255, 256}
ExpVals == {0, 1, 10, 33}
ModVals == {0, 1, 2, 3, 256, 1000}
FieldLens == 0..MaxFieldLen
ModexpGens ==
    {[kind |-> "modexp", base_len |-> bl, exp_len |-> el, modulus_len |-> ml,
      base |-> b, exp |-> e, modulus |-> m] :
        bl \in FieldLens, el \in FieldLens, ml \in FieldLens,
        b \in BaseVals, e \in ExpVals, m \in ModVals}
ModexpInput(g) ==
    Word32(g.base_len) \o Word32(g.exp_len) \o Word32(g.modulus_len)
        \o EncodeBE(g.base, g.base_len) \o EncodeBE(g.exp, g.exp_len)
        \o EncodeBE(g.modulus, g.modulus_len)
ModexpCalls ==
    {[address |-> 5, input |-> ModexpInput(g), gen |-> g] :
        g \in {h \in ModexpGens : /\ h.base < Pow256(h.base_len)
                                  /\ h.exp < Pow256(h.exp_len)
                                  /\ h.modulus < Pow256(h.modulus_len)}}

\* batchvalidatesign inputs: hash, bytes[] signatures, address[] addresses.
\* A signature is "good" (a key is recovered), "norec" (none is) or "badid" (its
\* recovery id is 27); an address is "match" (the one recovered from the good
\* signature) or "other".
BatchHash == Fill(32, 17)
SigKinds == {"good", "norec", "badid"}
AddrKinds == {"match", "other"}
SigBytes(k) ==
    CASE k = "good" -> Word32(1) \o Word32(1) \o <<0>>
      [] k = "norec" -> Word32(2) \o Word32(1) \o <<0>>
      [] OTHER -> Word32(1) \o Word32(1) \o <<27>>
AddrWord(k) ==
    IF k = "match"
    THEN H256_of_address(recovered_address(BatchHash, Word32(1) \o Word32(1), 0))
    ELSE Fill(32, 9)

RECURSIVE Concat(_)
Concat(ss) == IF ss = <<>> THEN <<>> ELSE Head(ss) \o Concat(Tail(ss))

\* The Solidity ABI encoding of (bytes32, bytes[], address[])
EncodeBatch(sigs, addrs) ==
    LET n == Len(sigs)
        sigsRegion ==
            Word32(n)
            \o Concat([k \in 1..n |-> Word32(32 * n + 128 * (k - 1))])
            \o Concat([k \in 1..n |-> Word32(65) \o SigBytes(sigs[k]) \o Fill(31, 0)])
        addrsRegion == Word32(Len(addrs)) \o Concat([k \in 1..Len(addrs) |-> AddrWord(addrs[k])])
    IN BatchHash \o Word32(96) \o Word32(96 + Len(sigsRegion)) \o sigsRegion \o addrsRegion

BatchCalls ==
    {[address |-> a, input |-> EncodeBatch(ss, as),
      gen |-> [kind |-> "batch", sigs |-> ss, addrs |-> as]] :
        a \in {9, 10}, ss \in SeqsUpTo(SigKinds, MaxSigs), as \in SeqsUpTo(AddrKinds, MaxSigs)}

\* batchvalidatesign inputs with one more signature than the 32 bytes of the result
\* (tron.rs line 142): 33 signatures of one kind, 32 addresses that match none,
\* and a last address.
LongBatchCalls ==
    {[address |-> 9,
      input |-> EncodeBatch([i \in 1..33 |-> k], [i \in 1..33 |-> IF i = 33 THEN a ELSE "other"]),
      gen |-> [kind |-> "batch", sigs |-> [i \in 1..33 |-> k],
               addrs |-> [i \in 1..33 |-> IF i = 33 THEN a ELSE "other"]]] :
        k \in {"good", "norec"}, a \in AddrKinds}

Calls == RawCalls \cup EcCalls \cup ModexpCalls \cup BatchCalls \cup LongBatchCalls

PInit ==
    /\ callCrate \in Crates
    /\ callBuild \in Builds
    /\ \E c \in Calls : callAddress = c.address /\ callInput = c.input /\ gen = c.gen
    /\ result = [tag |-> "NotCalled"]

\* The call tron_precompile(address, input, None)
PCall ==
    /\ result.tag = "NotCalled"
    /\ result' = tron_precompile(callCrate, callBuild, callAddress, callInput)
    /\ UNCHANGED <<callCrate, callBuild, callAddress, callInput, gen>>
    /\ UNCHANGED <<rvars, avars, cvars>>

PNext == PCall

\* No Runtime runs beside the precompile call.
RIdle ==
    /\ code = <<>>
    /\ preScript = [i \in 1..MaxPre |-> Ok]
    /\ hcalls = 0
    /\ machine = MachineNew
    /\ status = Ok
    /\ conts = {}
    /\ nextId = 1
    /\ last = NoOp
    /\ exited = None
    /\ dropped = FALSE
    /\ consumed = {}
    /\ expect = [out |-> RunOutcome(Rt, code, preScript, hcalls), steps |-> 0]

(***************************************************************************)
(* An AbiArgIterator and its caller: the iterator is made over a buffer,   *)
(* then the readers are called on it in any order.  A reader that aborts   *)
(* ends the run.                                                           *)
(***************************************************************************)
\* The buffers: the raw inputs, the encodings of (bytes32, bytes[], address[]),
\* an encoding of one bytes value of 3 bytes, an offset beyond the buffer, and a
\* length beyond the buffer.
AbiBuffers ==
    {c.input : c \in RawCalls \cup BatchCalls}
        \cup {Word32(32) \o Word32(3) \o <<1, 2, 3>> \o Fill(29, 0),
              Word32(64),
              Word32(32) \o Word32(1000)}

\* tron.rs lines 14-16: AbiArgIterator::new
AInit ==
    /\ abiIt \in {AbiArgIterator_new(d) : d \in AbiBuffers}
    /\ abiLast = [op |-> "new", tag |-> "-", val |-> <<>>]

\* A reader was called and returned r.
AbiReturn(op, r) ==
    /\ abiLast.tag # "Panic"
    /\ abiIt' = r.it
    /\ abiLast' = [op |-> op, tag |-> r.tag, val |-> r.val]
    /\ UNCHANGED <<rvars, pvars, cvars>>

\* tron.rs lines 18-26
ANextByte32 == AbiReturn("next_byte32", next_byte32(abiIt))

\* tron.rs lines 28-36
ANextWordsAsBytes == \E n \in 0..3 : AbiReturn("next_words_as_bytes", next_words_as_bytes(abiIt, n))

\* tron.rs lines 46-53
ANextBytes == AbiReturn("next_bytes", next_bytes(abiIt))

\* tron.rs lines 55-71
ANextArrayOfBytes == AbiReturn("next_array_of_bytes", next_array_of_bytes(abiIt))

\* tron.rs lines 73-89
ANextArrayOfByte32 == AbiReturn("next_array_of_byte32", next_array_of_byte32(abiIt))

ANext ==
    \/ ANextByte32
    \/ ANextWordsAsBytes
    \/ ANextBytes
    \/ ANextArrayOfBytes
    \/ ANextArrayOfByte32

\* No AbiArgIterator is driven beside the run.
AIdle ==
    /\ abiIt = AbiArgIterator_new(<<>>)
    /\ abiLast = [op |-> "new", tag |-> "-", val |-> <<>>]

(***************************************************************************)
(* runtime/src/lib.rs: Config, a record of the 43 fields of the struct     *)
(* (lines 131-222).  usize::max_value() is BigUsize; an Option<usize> is   *)
(* the record [some, val].                                                 *)
(***************************************************************************)
\* lines 266-312: Config::tvm()
tvm ==
    [gas_ext_code |-> 20,
     gas_ext_code_hash |-> 20,
     gas_balance |-> 20,
     gas_sload |-> 50,
     gas_sstore_set |-> 20000,
     gas_sstore_reset |-> 5000,
     refund_sstore_clears |-> 15000,
     gas_suicide |-> 0,
     gas_suicide_new_account |-> 0,
     gas_call |-> 40,
     gas_expbyte |-> 10,
     gas_transaction_create |-> 21000,
     gas_transaction_call |-> 21000,
     gas_transaction_zero_data |-> 4,
     gas_transaction_non_zero_data |-> 68,
     sstore_gas_metering |-> FALSE,
     sstore_revert_under_stipend |-> FALSE,
     err_on_call_with_more_gas |-> FALSE,
     empty_considered_exists |-> FALSE,
     create_increase_nonce |-> TRUE,
     call_l64_after_gas |-> FALSE,
     stack_limit |-> 1024,
     memory_limit |-> BigUsize,
     call_stack_limit |-> 1024,
     create_contract_limit |-> [some |-> FALSE, val |-> 0],
     call_stipend |-> 2300,
     has_delegate_call |-> TRUE,
     has_create2 |-> FALSE,
     has_real_create2 |-> FALSE,
     has_revert |-> TRUE,
     has_return_data |-> TRUE,
     has_bitwise_shifting |-> FALSE,
     has_chain_id |-> FALSE,
     has_self_balance |-> FALSE,
     has_ext_code_hash |-> FALSE,
     has_token_transfer |-> FALSE,
     create_account_if_not_exist |-> FALSE,
     has_iscontract |-> FALSE,
     has_transfer_exception |-> FALSE,
     has_stake |-> FALSE,
     has_token_issue |-> FALSE,
     has_iswitness |-> FALSE,
     has_buggy_origin |-> TRUE]

\* lines 314-360: Config::frontier()
frontier ==
    [gas_ext_code |-> 20,
     gas_ext_code_hash |-> 20,
     gas_balance |-> 20,
     gas_sload |-> 50,
     gas_sstore_set |-> 20000,
     gas_sstore_reset |-> 5000,
     refund_sstore_clears |-> 15000,
     gas_suicide |-> 0,
     gas_suicide_new_account |-> 0,
     gas_call |-> 40,
     gas_expbyte |-> 10,
     gas_transaction_create |-> 21000,
     gas_transaction_call |-> 21000,
     gas_transaction_zero_data |-> 4,
     gas_transaction_non_zero_data |-> 68,
     sstore_gas_metering |-> FALSE,
     sstore_revert_under_stipend |-> FALSE,
     err_on_call_with_more_gas |-> TRUE,
     empty_considered_exists |-> TRUE,
     create_increase_nonce |-> FALSE,
     call_l64_after_gas |-> FALSE,
     stack_limit |-> 1024,
     memory_limit |-> BigUsize,
     call_stack_limit |-> 1024,
     create_contract_limit |-> [some |-> FALSE, val |-> 0],
     call_stipend |-> 2300,
     has_delegate_call |-> FALSE,
     has_create2 |-> FALSE,
     has_real_create2 |-> FALSE,
     has_revert |-> FALSE,
     has_return_data |-> FALSE,
     has_bitwise_shifting |-> FALSE,
     has_chain_id |-> FALSE,
     has_self_balance |-> FALSE,
     has_ext_code_hash |-> FALSE,
     has_token_transfer |-> FALSE,
     create_account_if_not_exist |-> FALSE,
     has_iscontract |-> FALSE,
     has_transfer_exception |-> FALSE,
     has_stake |-> FALSE,
     has_token_issue |-> FALSE,
     has_iswitness |-> FALSE,
     has_buggy_origin |-> FALSE]

\* lines 362-408: Config::istanbul()
istanbul ==
    [gas_ext_code |-> 700,
     gas_ext_code_hash |-> 700,
     gas_balance |-> 700,
     gas_sload |-> 800,
     gas_sstore_set |-> 20000,
     gas_sstore_reset |-> 5000,
     refund_sstore_clears |-> 15000,
     gas_suicide |-> 5000,
     gas_suicide_new_account |-> 25000,
     gas_call |-> 700,
     gas_expbyte |-> 50,
     gas_transaction_create |-> 53000,
     gas_transaction_call |-> 21000,
     gas_transaction_zero_data |-> 4,
     gas_transaction_non_zero_data |-> 16,
     sstore_gas_metering |-> TRUE,
     sstore_revert_under_stipend |-> TRUE,
     err_on_call_with_more_gas |-> FALSE,
     empty_considered_exists |-> FALSE,
     create_increase_nonce |-> TRUE,
     call_l64_after_gas |-> TRUE,
     stack_limit |-> 1024,
     memory_limit |-> BigUsize,
     call_stack_limit |-> 1024,
     create_contract_limit |-> [some |-> TRUE, val |-> 24576],
     call_stipend |-> 2300,
     has_delegate_call |-> TRUE,
     has_create2 |-> TRUE,
     has_real_create2 |-> TRUE,
     has_revert |-> TRUE,
     has_return_data |-> TRUE,
     has_bitwise_shifting |-> TRUE,
     has_chain_id |-> TRUE,
     has_self_balance |-> TRUE,
     has_ext_code_hash |-> TRUE,
     has_token_transfer |-> FALSE,
     create_account_if_not_exist |-> FALSE,
     has_iscontract |-> FALSE,
     has_transfer_exception |-> FALSE,
     has_stake |-> FALSE,
     has_token_issue |-> FALSE,
     has_iswitness |-> FALSE,
     has_buggy_origin |-> FALSE]

\* lines 228-232
allow_tvm_istanbul(c) ==
    [c EXCEPT !.has_chain_id = TRUE, !.has_self_balance = TRUE, !.has_real_create2 = TRUE]

\* lines 235-237
allow_tvm_asset_issue(c) == [c EXCEPT !.has_token_issue = TRUE]

\* A slip in lines 240-243: the stake upgrade also enables the token issue.
allow_tvm_stake_and_issue(c) ==
    [c EXCEPT !.has_stake = TRUE, !.has_iswitness = TRUE, !.has_token_issue = TRUE]

\* lines 240-243
allow_tvm_stake(c) == [c EXCEPT !.has_stake = TRUE, !.has_iswitness = TRUE]

\* lines 246-250
allow_tvm_solidity059(c) ==
    [c EXCEPT !.create_account_if_not_exist = TRUE, !.has_iscontract = TRUE,
              !.has_transfer_exception = TRUE]

\* lines 253-258
allow_tvm_constantinople(c) ==
    [c EXCEPT !.has_bitwise_shifting = TRUE, !.has_ext_code_hash = TRUE,
              !.has_create2 = TRUE, !.has_real_create2 = FALSE]

\* lines 261-263
allow_tvm_asset_transfer(c) == [c EXCEPT !.has_token_transfer = TRUE]

\* A Config is made by one of the constructors.
CInit ==
    /\ config \in {tvm, frontier, istanbul}
    /\ cfgPrev = config
    /\ cfgFn = "-"

\* An upgrade function fn was applied to the Config and left it as c.
Upgrade(fn, c) ==
    /\ cfgPrev' = config
    /\ config' = c
    /\ cfgFn' = fn
    /\ UNCHANGED <<rvars, pvars, avars>>

CAllowTvmIstanbul == Upgrade("allow_tvm_istanbul", allow_tvm_istanbul(config))

CAllowTvmAssetIssue == Upgrade("allow_tvm_asset_issue", allow_tvm_asset_issue(config))

CAllowTvmStake == Upgrade("allow_tvm_stake", allow_tvm_stake(config))

CAllowTvmSolidity059 == Upgrade("allow_tvm_solidity059", allow_tvm_solidity059(config))

CAllowTvmConstantinople ==
    Upgrade("allow_tvm_constantinople", allow_tvm_constantinople(config))

CAllowTvmAssetTransfer == Upgrade("allow_tvm_asset_transfer", allow_tvm_asset_transfer(config))

CNext ==
    \/ CAllowTvmIstanbul
    \/ CAllowTvmAssetIssue
    \/ CAllowTvmStake
    \/ CAllowTvmSolidity059
    \/ CAllowTvmConstantinople
    \/ CAllowTvmAssetTransfer

\* No Config is upgraded beside the run.
CIdle ==
    /\ config = tvm
    /\ cfgPrev = tvm
    /\ cfgFn = "-"

(***************************************************************************)
(* The specifications.                                                     *)
(***************************************************************************)
\* A Runtime and its host.
Init == RInit /\ PIdle /\ AIdle /\ CIdle

Spec == Init /\ [][RNext]_vars

\* One call of tron_precompile.
PStart == PInit /\ RIdle /\ AIdle /\ CIdle

PSpec == PStart /\ [][PNext]_vars

\* An AbiArgIterator and its caller.
AStart == AInit /\ RIdle /\ PIdle /\ CIdle

ASpec == AStart /\ [][ANext]_vars

\* A Config and the upgrades applied to it.
CStart == CInit /\ RIdle /\ PIdle /\ AIdle

CSpec == CStart /\ [][CNext]_vars

(***************************************************************************)
(* Claims about the step/run loop and the continuation protocol.           *)
(***************************************************************************)
Current == [machine |-> machine, status |-> status, hcalls |-> hcalls,
            result |-> last.result, reason |-> last.reason, kind |-> last.kind]

\* C1: once a step or run has reported Exit(e), every later step or run reports
\* Exit(e) again, and neither the Machine nor the status changes any more.
C1_ExitReplayed ==
    [][exited # None =>
          /\ machine' = machine
          /\ status' = status
          /\ last'.op \in {"step", "run"}
          /\ last'.result = "Exit"
          /\ last'.reason = exited]_rvars

\* C1 witness: the Machine itself exited with InvalidCode (so Machine::step was called
\* by the call that reported it), and a later run replayed it without calling it.
C1_Witness ==
    /\ exited = "InvalidCode"
    /\ last.op = "run"
    /\ last.result = "Exit"
    /\ last.reason = "InvalidCode"
    /\ last.msteps = 0

\* C2: when the Machine can be inspected and pre_validate answers with an error e,
\* that step sets status to e, reports Exit(e) and does not call Machine::step.
C2_PreValidateErr ==
    (last.op \in {"step", "run", "resolve"} /\ last.pre \notin {None, Ok}) =>
        /\ status = last.pre
        /\ last.result = "Exit"
        /\ last.reason = last.pre
        /\ ~last.stepped

\* C2 witness: a step rejected by pre_validate after an instruction was executed.
C2_Witness ==
    /\ last.op = "step"
    /\ last.pre = "PreErr"
    /\ machine.executed = 1
    /\ status = "PreErr"

\* C3: run returns only an Exit or a Trap, and calling step until it first returns
\* Err leaves the Runtime, the Machine and the Handler as run would have left them
\* from the state the first of these steps began in, with the same Capture.
C3_RunIsRepeatedStep ==
    /\ last.op = "run" => last.result \in {"Exit", "Trap"}
    /\ (last.op = "step" /\ last.result # Ok) => expect.out = Current

\* C3 witness: three steps in a row, the third one returning a Trap.
C3_Witness ==
    /\ last.op = "step"
    /\ last.result = "Trap"
    /\ expect.steps = 3

\* C4: at most one continuation exists; while one exists the only calls are its
\* resolution or its discarding (no step, no run), and it is gone before the
\* next trap produces another.
C4_OneContinuation ==
    [][/\ Cardinality(conts') <= 1
       /\ conts # {} => /\ last'.op \in {"resolve", "drop"}
                        /\ conts \cap conts' = {}
                        /\ last'.cont \in conts]_rvars

\* C4 witness: a second trap, produced by resolving the first.
C4_Witness ==
    /\ Cardinality(conts) = 1
    /\ consumed # {}
    /\ last.op = "resolve"
    /\ last.result = "Trap"

C6_DroppedNeverProgresses ==
    [][dropped => /\ machine' = machine
                  /\ last'.msteps = 0
                  /\ last'.result = "Exit"]_rvars

\* C6 witness: a step after the discarding, with bytecode left to execute.
C6_Witness ==
    /\ dropped
    /\ last.op = "step"
    /\ last.reason = "UnhandledInterrupt"
    /\ machine.pc < Len(code)

(***************************************************************************)
(* Claims about the precompile dispatch.                                   *)
(***************************************************************************)
Called == result.tag # "NotCalled"

\* ceil(len / 32)
CeilWords(len) == (len + 31) \div 32

\* (b^e) mod m by e multiplications
RECURSIVE PowMod(_, _, _)
PowMod(b, e, m) == IF e = 0 THEN 1 % m ELSE (PowMod(b, e - 1, m) * (b % m)) % m

\* C7 as stated: for every address and input tron_precompile returns None or Some
\* and never aborts, and address 0x0a returns a failed result for every input.
C7_AsStated ==
    Called => /\ result.tag # "Panic"
              /\ callAddress = 10 => result.tag = "Failed"

\* C8 as stated: for address 1, whenever parsing or recovery fails the output is the
\* empty byte sequence (not 32 zero bytes), with cost 3000.
C8_AsStated ==
    (Called /\ callAddress = 1 /\ result.tag = "Returned" /\ result.inner = "None") =>
        /\ result.output = <<>>
        /\ result.cost = 3000

\* C9 as stated: for every input length L the cost for address 2 is
\* 60 + 12 * ceil(L / 32) and the cost for address 3 is 600 + 120 * ceil(L / 32).
C9_AsStated ==
    /\ (Called /\ callAddress = 2) =>
           result.tag = "Returned" /\ result.cost = 60 + 12 * CeilWords(Len(callInput))
    /\ (Called /\ callAddress = 3) =>
           result.tag = "Returned" /\ result.cost = 600 + 120 * CeilWords(Len(callInput))

\* C10: for address 5 and an input that encodes (baseLen, expLen, modLen), base,
\* exponent and modulus: the output is empty when the modulus is 0, and otherwise
\* exactly modLen bytes holding (base^exp) mod modulus big-endian, zero-padded on
\* the left.
C10_Modexp ==
    (Called /\ callAddress = 5 /\ gen.kind = "modexp") =>
        /\ result.tag = "Returned"
        /\ gen.modulus = 0 => result.output = <<>>
        /\ gen.modulus # 0 =>
               /\ Len(result.output) = gen.modulus_len
               /\ result.output =
                      EncodeBE(PowMod(gen.base, gen.exp, gen.modulus), gen.modulus_len)

\* C10 witness: 2^10 mod 1000 with a 2-byte modulus gives the bytes 0, 24.
C10_Witness ==
    /\ Called
    /\ callAddress = 5
    /\ gen.kind = "modexp"
    /\ gen.base = 2 /\ gen.exp = 10 /\ gen.modulus = 1000 /\ gen.modulus_len = 2
    /\ result.output = <<0, 24>>

\* The three-tier complexity f of the modexp cost
ModexpF(x) ==
    IF x <= 64 THEN x * x
    ELSE IF x <= 1024 THEN (x * x) \div 4 + 96 * x - 3072
    ELSE (x * x) \div 16 + 480 * x - 199680

\* 2^k
RECURSIVE Pow2(_)
Pow2(k) == IF k = 0 THEN 1 ELSE 2 * Pow2(k - 1)

\* The bit length of n: the least k with n < 2^k
BitLength(n) == CHOOSE k \in 0..24 : n < Pow2(k) /\ (k = 0 \/ n >= Pow2(k - 1))

C12_AsStated ==
    (Called /\ callAddress = 9) =>
        /\ result.tag = "Returned"
        /\ ~result.wrapped
        /\ Len(callInput) \div 32 >= 5 =>
               result.cost = (1500 * (Len(callInput) \div 32 - 5)) \div 6

\* C13 as stated: for address 9, when the decoded signature array and address
\* array have different lengths, the dispatch does not report a successful
\* (Returned) result.
C13_AsStated ==
    (Called /\ callAddress = 9 /\ gen.kind = "batch" /\ Len(gen.sigs) # Len(gen.addrs)) =>
        result.tag # "Returned"

\* Signature i of the input is one whose recovered address is address i.
Matches(i) == gen.sigs[i] = "good" /\ gen.addrs[i] = "match"

\* C14 as stated: for batchvalidatesign on a well-formed input with n signatures
\* and n addresses, for any n including n > 32, the output is exactly 32 bytes;
\* byte i is 1 for i < min(n, 32) when the address recovered from signature i is
\* address i, and every other byte is 0 (a failed recovery is a non-match).
C14_AsStated ==
    (/\ Called /\ callCrate = "precompiled" /\ callAddress = 9
     /\ gen.kind = "batch" /\ Len(gen.sigs) = Len(gen.addrs)) =>
        /\ result.tag = "Returned"
        /\ result.inner = "Some"
        /\ Len(result.output) = 32
        /\ \A i \in 1..32 :
               result.output[i] = IF i <= Len(gen.sigs) /\ Matches(i) THEN 1 ELSE 0

\* C15 as stated: for every input buffer and every sequence of AbiArgIterator
\* operations, each operation returns views inside the buffer or None; an offset
\* or length out of range yields None, never an out-of-bounds read or an abort.
C15_AsStated == abiLast.tag \in {"-", "Some", "None"}

\* The flags each upgrade function names in its body
Touched(fn) ==
    CASE fn = "allow_tvm_istanbul" -> {"has_chain_id", "has_self_balance", "has_real_create2"}
      [] fn = "allow_tvm_asset_issue" -> {"has_token_issue"}
      [] fn = "allow_tvm_stake" -> {"has_stake", "has_iswitness"}
      [] fn = "allow_tvm_solidity059" ->
             {"create_account_if_not_exist", "has_iscontract", "has_transfer_exception"}
      [] fn = "allow_tvm_constantinople" ->
             {"has_bitwise_shifting", "has_ext_code_hash", "has_create2", "has_real_create2"}
      [] fn = "allow_tvm_asset_transfer" -> {"has_token_transfer"}
      [] OTHER -> {}

\* C16: each Config upgrade function, applied to any Config in any order, changes
\* only the feature flags it names in its body and leaves every other field equal
\* to its value before the call.
C16_UpgradeFrame ==
    cfgFn # "-" =>
        /\ DOMAIN config = DOMAIN cfgPrev
        /\ \A f \in DOMAIN config \ Touched(cfgFn) : config[f] = cfgPrev[f]
        /\ \A f \in Touched(cfgFn) : config[f] \in BOOLEAN

\* C16 witness: allow_tvm_constantinople applied after allow_tvm_istanbul and
\* allow_tvm_stake clears has_real_create2 and keeps the flags those two set.
C16_Witness ==
    /\ cfgFn = "allow_tvm_constantinople"
    /\ cfgPrev.has_real_create2 /\ ~config.has_real_create2
    /\ ~cfgPrev.has_create2 /\ config.has_create2
    /\ cfgPrev.has_stake /\ config.has_stake
    /\ cfgPrev.has_chain_id /\ config.has_chain_id
    /\ config.gas_sload = cfgPrev.gas_sload

====
